---------------------------- MODULE Spec2Model ----------------------------
(***************************************************************************)
(* Bulk content importers of cloud-exam-be: importQuestionTopics,          *)
(* importQuestionTags and importQuestions, run against a content store     *)
(* that answers findMany and create.                                       *)
(*                                                                         *)
(* JavaScript strings are sequences of one-character strings, so that      *)
(* toLowerCase, trim and the slug regular expressions are computed and not *)
(* assumed.  A JavaScript value is a record whose field t is its type tag. *)
(***************************************************************************)
EXTENDS Integers, Sequences, FiniteSets, TLC

\* Longest input array the model explores.
MaxLen == 2

---------------------------------------------------------------------------
\* Strings

Uppers == <<"A","B","C","D","E","F","G","H","I","J","K","L","M",
            "N","O","P","Q","R","S","T","U","V","W","X","Y","Z">>
Lowers == <<"a","b","c","d","e","f","g","h","i","j","k","l","m",
            "n","o","p","q","r","s","t","u","v","w","x","y","z">>
Digits == {"0","1","2","3","4","5","6","7","8","9"}

IsUpper(c) == \E k \in DOMAIN Uppers : Uppers[k] = c
IsLower(c) == \E k \in DOMAIN Lowers : Lowers[k] = c
LowerChar(c) == IF IsUpper(c)
                THEN Lowers[CHOOSE k \in DOMAIN Uppers : Uppers[k] = c]
                ELSE c

\* String.prototype.toLowerCase
ToLowerCase(s) == [k \in DOMAIN s |-> LowerChar(s[k])]

\* \s, \w and the character class [^\w\s-] of generateSlug
IsSpace(c) == c \in {" ", "\t", "\n"}
IsWord(c) == IsUpper(c) \/ IsLower(c) \/ c \in Digits \/ c = "_"
IsSlugSeparator(c) == IsSpace(c) \/ c = "_" \/ c = "-"

RECURSIVE TrimStart(_)
TrimStart(s) == IF s # <<>> /\ IsSpace(Head(s)) THEN TrimStart(Tail(s)) ELSE s
RECURSIVE TrimEnd(_)
TrimEnd(s) == IF s # <<>> /\ IsSpace(s[Len(s)])
              THEN TrimEnd(SubSeq(s, 1, Len(s) - 1)) ELSE s
\* String.prototype.trim
Trim(s) == TrimEnd(TrimStart(s))

\* .replace(/[^\w\s-]/g, '')
StripSpecial(s) == SelectSeq(s, LAMBDA c : IsWord(c) \/ IsSpace(c) \/ c = "-")

\* .replace(/[\s_-]+/g, '-')
RECURSIVE CollapseSeparators(_)
CollapseSeparators(s) ==
    IF s = <<>> THEN <<>>
    ELSE IF IsSlugSeparator(Head(s))
         THEN IF Len(s) > 1 /\ IsSlugSeparator(s[2])
              THEN CollapseSeparators(Tail(s))
              ELSE <<"-">> \o CollapseSeparators(Tail(s))
         ELSE <<Head(s)>> \o CollapseSeparators(Tail(s))

\* .replace(/^-+|-+$/g, '')
RECURSIVE StripHyphensStart(_)
StripHyphensStart(s) ==
    IF s # <<>> /\ Head(s) = "-" THEN StripHyphensStart(Tail(s)) ELSE s
RECURSIVE StripHyphensEnd(_)
StripHyphensEnd(s) ==
    IF s # <<>> /\ s[Len(s)] = "-"
    THEN StripHyphensEnd(SubSeq(s, 1, Len(s) - 1)) ELSE s

generateSlug(str) ==
    StripHyphensEnd(StripHyphensStart(
        CollapseSeparators(StripSpecial(Trim(ToLowerCase(str))))))

\* The strings of the explored inputs.
sMath == <<"M","a","t","h">>
sMathLower == <<"m","a","t","h">>
sGeo == <<"G","e","o">>
sConstructor == <<"c","o","n","s","t","r","u","c","t","o","r">>
sEasy == <<"E","a","s","y">>
sEasySlug == <<"e","a","s","y">>
sNewTag == <<"N","e","w"," ","T","a","g","!">>
sNewTagSlug == <<"n","e","w","-","t","a","g">>
sHard == <<"H","a","r","d">>
sCustom == <<"e","z">>
sQ1 == <<"Q","1">>
sQ2 == <<"Q","2">>
sText == <<"H","i","?">>

---------------------------------------------------------------------------
\* JavaScript values

\* A scalar (name, slug, code, topic, type, ...): t is the type, s the
\* characters of a string or the digits of a number.
Undefined == [t |-> "undefined", s |-> <<>>]
Null == [t |-> "null", s |-> <<>>]
Str(s) == [t |-> "string", s |-> s]
Num(s) == [t |-> "number", s |-> s]

\* ToBoolean of a scalar: '' , 0, null and undefined are falsy.
Truthy(v) ==
    \/ v.t = "string" /\ v.s # <<>>
    \/ v.t = "number" /\ v.s # <<"0">>

\* x || y
Or(x, y) == IF Truthy(x) THEN x ELSE y

\* A textual field (description, question, explanation): a plain string s or
\* a block array a.
UndefinedText == [t |-> "undefined", s |-> <<>>, a |-> <<>>]
NullText == [t |-> "null", s |-> <<>>, a |-> <<>>]
StrText(s) == [t |-> "string", s |-> s, a |-> <<>>]
NumText(s) == [t |-> "number", s |-> s, a |-> <<>>]
Blocks(a) == [t |-> "array", s |-> <<>>, a |-> a]
Paragraph(s) ==
    [type |-> "paragraph", children |-> << [type |-> "text", text |-> s] >>]

TruthyText(v) ==
    \/ v.t = "string" /\ v.s # <<>>
    \/ v.t = "number" /\ v.s # <<"0">>
    \/ v.t = "array"

convertToBlocks_WrapsArrays(value) ==
    IF ~TruthyText(value) THEN NullText
    ELSE IF value.t \in {"string", "array"} THEN Blocks(<<Paragraph(value.s)>>)
    ELSE NullText

convertToBlocks(value) ==
    IF ~TruthyText(value) THEN NullText
    ELSE IF value.t = "array" THEN value
    ELSE IF value.t = "string" THEN Blocks(<<Paragraph(value.s)>>)
    ELSE NullText

convertDescriptionToBlocks(description) ==
    IF ~TruthyText(description) THEN NullText
    ELSE IF description.t = "array" THEN description
    ELSE IF description.t = "string" THEN Blocks(<<Paragraph(description.s)>>)
    ELSE NullText

\* A list field (answers, correctAnswer, tags): an array a, or something
\* that is not an array.
UndefinedList == [t |-> "undefined", a |-> <<>>]
StringList == [t |-> "string", a |-> <<>>]
Array(a) == [t |-> "array", a |-> a]

\* Mutant: the length test is dropped.
MissingOrEmptyArray_NoLength(x) == x.t # "array"

\* !x || !Array.isArray(x) || x.length === 0
MissingOrEmptyArray(x) == x.t # "array" \/ Len(x.a) = 0

\* A reference to a document, as question_topic carries it.
NullId == [t |-> "null", id |-> 0]
UndefinedId == [t |-> "undefined", id |-> 0]
DocId(n) == [t |-> "id", id |-> n]

---------------------------------------------------------------------------
\* The content store

\* strapi.documents(uid).findMany({filters: {[field]: {$eq: value}}}): the
\* documents of a collection whose field equals the value.
FindMany(docs, field, value) == SelectSeq(docs, LAMBDA d : d[field] = value)

\* strapi.documents(uid).findMany({status: 'published'})
FindPublished(docs) == SelectSeq(docs, LAMBDA d : d.published)

\* The documentId the store gives the next document it creates.
NextDocumentId(st) == Len(st.topics) + Len(st.tags) + Len(st.questions) + 1

\* strapi.documents(uid).create({data: {...entry, publishedAt: Date.now()}})
\* when it succeeds: the collection with the new document.
CreateDocument(st, uid, entry) ==
    LET doc == [f \in DOMAIN entry \cup {"documentId", "published"} |->
                   IF f = "documentId" THEN NextDocumentId(st)
                   ELSE IF f = "published" THEN TRUE
                   ELSE entry[f]]
    IN  [st EXCEPT ![uid] = Append(@, doc)]

\* The importer's record of one store call, kept to state what was issued.
FindCall(uid, idx, field, value) ==
    [op |-> "findMany", uid |-> uid, idx |-> idx, field |-> field, value |-> value]
CreateCall(uid, idx) ==
    [op |-> "create", uid |-> uid, idx |-> idx, field |-> "data", value |-> Undefined]

\* The object a run returns.
ImportResult(c, s, f) == [created |-> c, skipped |-> s, failed |-> f]
NotReturned == [created |-> -1, skipped |-> -1, failed |-> -1]

\* An own-property read cache[key] of a plain object literal {}: an own key
\* gives the cached document, a key the object inherits from Object.prototype
\* gives that member (truthy, with no documentId), any other key undefined.
ObjectPrototypeKeys == {sConstructor}
EmptyObject == [k \in {} |-> 0]
PropertyRead(cache, k) ==
    IF k \in DOMAIN cache THEN [t |-> "object", documentId |-> DocId(cache[k].documentId)]
    ELSE IF k \in ObjectPrototypeKeys THEN [t |-> "object", documentId |-> UndefinedId]
    ELSE [t |-> "undefined", documentId |-> UndefinedId]

\* cache = {}; for (const d of docs) cache[d.name.toLowerCase()] = d;
CacheOf(docs) ==
    LET keys == {ToLowerCase(docs[j].name.s) : j \in DOMAIN docs}
        last(k) == CHOOSE j \in DOMAIN docs :
                      /\ ToLowerCase(docs[j].name.s) = k
                      /\ \A m \in DOMAIN docs :
                            ToLowerCase(docs[m].name.s) = k => m <= j
    IN  [k \in keys |-> docs[last(k)]]

---------------------------------------------------------------------------
\* State

VARIABLES
    kind,           \* which script runs: "topics", "tags" or "questions"
    fileState,      \* the data file: "absent", "unparseable", "notArray", "array"
    skipExisting,   \* options.skipExisting
    dryRun,         \* options.dryRun
    input,          \* the parsed array
    initialStore,   \* the store when the run starts
    store,          \* the content store
    topicsCache,    \* module-level topicsCache
    tagsCache,      \* module-level tagsCache
    pc,             \* where the async function stands
    i,              \* position in the array (1-based)
    key,            \* the record's local slug (tags) or code (questions)
    exists,         \* the loop's local exists, as last assigned
    created, skipped, failed,
    missingTopics, missingTags,
    calls,          \* every store call issued, in order
    pending,        \* the store calls issued and not yet answered
    submitted,      \* the entries passed to create, in order
    log,            \* the per-record console lines
    result,         \* the ImportResult returned
    error,          \* what the run's promise rejected with, "" when it has not
    content,        \* the value first given to a block conversion
    blocks,         \* what the conversions applied so far have returned
    passes          \* how many conversions have been applied to content

vars == <<kind, fileState, skipExisting, dryRun, input, initialStore, store,
          topicsCache, tagsCache, pc, i, key, exists, created, skipped,
          failed, missingTopics, missingTags, calls, pending, submitted, log, result,
          error, content, blocks, passes>>

\* What an import run is given and never assigns; the conversion variables
\* belong to the conversions taken on their own, which a run leaves alone.
conversion == <<content, blocks, passes>>
options == <<kind, fileState, skipExisting, dryRun, input, initialStore,
             conversion>>
caches == <<topicsCache, tagsCache>>
counts == <<created, skipped, failed>>
missing == <<missingTopics, missingTags>>

\* Sequences over S of length at most n.
SeqUpTo(S, n) == UNION {[1..m -> S] : m \in 0..n}

\* console.log / console.error of one record's outcome
Line(idx, msg) == [idx |-> idx, msg |-> msg]

---------------------------------------------------------------------------
\* Inputs

\* Elements of a question-topics.json array.
Topic(name, description) ==
    [t |-> "object", name |-> name, description |-> description]
NullTopic == [t |-> "null", name |-> Undefined, description |-> UndefinedText]
TopicRecords ==
    { Topic(Str(sMath), StrText(sText)),
      Topic(Str(sMathLower), UndefinedText),
      Topic(Str(sGeo), Blocks(<<Paragraph(sText)>>)),
      Topic(Undefined, StrText(sText)),
      Topic(Str(<<>>), UndefinedText),
      Topic(Num(<<"7">>), UndefinedText),
      NullTopic }

\* Stores a run may start from.
TopicDoc(id, name, published) ==
    [documentId |-> id, name |-> Str(name), description |-> NullText,
     published |-> published]
TagDoc(id, name, slug, published) ==
    [documentId |-> id, name |-> Str(name), slug |-> Str(slug),
     published |-> published]
EmptyStore == [topics |-> <<>>, tags |-> <<>>, questions |-> <<>>]

\* Elements of a question-tags.json array.
Tag(name, slug) == [t |-> "object", name |-> name, slug |-> slug]
NullTag == [t |-> "null", name |-> Undefined, slug |-> Undefined]
TagRecords ==
    { Tag(Str(sEasy), Undefined),
      Tag(Str(sEasy), Str(sCustom)),
      Tag(Str(sHard), Str(sEasySlug)),
      Tag(Str(sHard), Str(sCustom)),
      Tag(Str(sNewTag), Undefined),
      Tag(Undefined, Str(sCustom)),
      Tag(Num(<<"7">>), Undefined),
      NullTag }

\* Elements of a questions.json array.
BaseQuestion ==
    [t |-> "object", code |-> Str(sQ2), question |-> StrText(sText),
     type |-> Undefined, answers |-> Array(<<"A", "B">>),
     correctAnswer |-> Array(<<"B">>), explanation |-> UndefinedText,
     difficulty |-> Undefined, source |-> Undefined, version |-> Undefined,
     topic |-> Undefined, tags |-> UndefinedList]
NullQuestion ==
    [BaseQuestion EXCEPT !.t = "null", !.code = Undefined,
                         !.question = UndefinedText, !.answers = UndefinedList,
                         !.correctAnswer = UndefinedList]
QuestionRecords ==
    { [BaseQuestion EXCEPT !.code = Str(sQ1)],
      [BaseQuestion EXCEPT !.topic = Str(sMathLower),
                           !.tags = Array(<<Str(sEasy), Str(sHard)>>),
                           !.explanation = StrText(sText)],
      [BaseQuestion EXCEPT !.code = Undefined, !.topic = Str(sGeo),
                           !.tags = Array(<<>>)],
      [BaseQuestion EXCEPT !.code = Undefined, !.topic = Str(sConstructor),
                           !.tags = Array(<<Str(sConstructor)>>)],
      [BaseQuestion EXCEPT !.question = UndefinedText],
      [BaseQuestion EXCEPT !.answers = Array(<<>>)],
      [BaseQuestion EXCEPT !.answers = StringList],
      [BaseQuestion EXCEPT !.correctAnswer = UndefinedList],
      [BaseQuestion EXCEPT !.topic = Num(<<"7">>)],
      [BaseQuestion EXCEPT !.tags = Array(<<Str(sEasy), Null>>)],
      NullQuestion }

QuestionDoc(id, code) ==
    [documentId |-> id, code |-> Str(code),
     question |-> Blocks(<<Paragraph(sText)>>), type |-> Str(<<"s">>),
     answers |-> Array(<<"A", "B">>), correctAnswer |-> Array(<<"B">>),
     explanation |-> NullText, difficulty |-> Str(<<"e">>), source |-> Null,
     version |-> Num(<<"1">>), question_topic |-> NullId,
     question_tags |-> <<>>, published |-> TRUE]

PopulatedStore ==
    [topics |-> <<TopicDoc(1, sMath, TRUE), TopicDoc(2, sGeo, FALSE)>>,
     tags |-> <<TagDoc(3, sEasy, sEasySlug, TRUE)>>,
     questions |-> <<QuestionDoc(4, sQ1)>>]

Stores == {EmptyStore, PopulatedStore}

RecordsOf(k) ==
    CASE k = "topics" -> TopicRecords
      [] k = "tags" -> TagRecords
      [] k = "questions" -> QuestionRecords

Init ==
    /\ kind \in {"topics", "tags", "questions"}
    /\ fileState \in {"absent", "unparseable", "notArray", "array"}
    /\ skipExisting \in BOOLEAN
    /\ dryRun \in BOOLEAN
    /\ input \in (IF fileState = "array"
                  THEN SeqUpTo(RecordsOf(kind), MaxLen) ELSE {<<>>})
    /\ initialStore \in Stores
    /\ store = initialStore
    /\ topicsCache = EmptyObject
    /\ tagsCache = EmptyObject
    /\ pc = "start"
    /\ i = 1
    /\ key = Undefined
    /\ exists = FALSE
    /\ created = 0
    /\ skipped = 0
    /\ failed = 0
    /\ missingTopics = {}
    /\ missingTags = {}
    /\ calls = <<>>
    /\ pending = <<>>
    /\ submitted = <<>>
    /\ log = <<>>
    /\ result = NotReturned
    /\ error = ""
    /\ content = UndefinedText
    /\ blocks = UndefinedText
    /\ passes = 0

---------------------------------------------------------------------------
\* Steps shared by the three scripts' control flow

\* return { created: c, skipped: s, failed: f }
Return(c, s, f) ==
    /\ pc' = "done"
    /\ result' = ImportResult(c, s, f)
    /\ UNCHANGED error

\* An exception nothing in the import function catches: the promise rejects
\* and the function's locals are gone.
Throw(e) ==
    /\ pc' = "threw"
    /\ error' = e
    /\ pending' = <<>>
    /\ UNCHANGED <<options, store, caches, i, key, counts, missing, calls,
                   submitted, log, result>>

\* Mutant: the call goes out while what was issued before is still awaited.
Await_Unawaited(call, p, pend) ==
    /\ calls' = Append(calls, call)
    /\ pending' = Append(pending, call)
    /\ pc' = p
    /\ UNCHANGED error

\* await of a store call: the call goes out, the function is suspended at p.
\* pend is what was still unanswered when the call is issued.
Await(call, p, pend) ==
    /\ calls' = Append(calls, call)
    /\ pending' = Append(pend, call)
    /\ pc' = p
    /\ UNCHANGED error

\* continue / end of the loop body: on to the next element.
NextRecord ==
    /\ i' = i + 1
    /\ pc' = "loop"
    /\ key' = Undefined
    /\ UNCHANGED error

---------------------------------------------------------------------------
\* importQuestionTopics

\* Lines 93-119: the file checks.
Topics_ReadFile ==
    /\ kind = "topics"
    /\ pc = "start"
    /\ IF fileState # "array"
       THEN Return(0, 0, 0)
       ELSE pc' = "loop" /\ UNCHANGED <<result, error>>
    /\ UNCHANGED <<options, store, caches, i, key, exists, counts, missing,
                   calls, pending, submitted, log>>

\* Mutant: the dryRun test is dropped and create is always called.
Topics_Prepare_NoDryRun(topic, pend) ==
    /\ Await(CreateCall("topics", i), "create", pend)
    /\ submitted' = Append(submitted,
           [idx |-> i,
            entry |-> [name |-> topic.name,
                       description |-> convertDescriptionToBlocks(topic.description)]])
    /\ UNCHANGED <<i, key, counts, log>>

\* Lines 150-166: the entry, and the dry-run count or the create call.
Topics_Prepare(topic, pend) ==
    LET entry == [name |-> topic.name,
                  description |-> convertDescriptionToBlocks(topic.description)]
    IN  IF dryRun
        THEN /\ created' = created + 1
             /\ log' = Append(log, Line(i, "would create"))
             /\ NextRecord
             /\ pending' = pend
             /\ UNCHANGED <<skipped, failed, calls, submitted>>
        ELSE /\ Await(CreateCall("topics", i), "create", pend)
             /\ submitted' = Append(submitted, [idx |-> i, entry |-> entry])
             /\ UNCHANGED <<i, key, counts, log>>

\* Mutant: every run that is not a dry run checks for existence.
Topics_Loop_AlwaysChecks ==
    /\ kind = "topics"
    /\ pc = "loop"
    /\ IF i > Len(input)
       THEN /\ Return(created, skipped, failed)
            /\ UNCHANGED <<store, i, key, counts, calls, pending, submitted, log>>
       ELSE LET topic == input[i] IN
            IF topic.t = "null"
            THEN Throw("TypeError")
            ELSE IF ~Truthy(topic.name)
            THEN /\ failed' = failed + 1
                 /\ log' = Append(log, Line(i, "without name"))
                 /\ NextRecord
                 /\ UNCHANGED <<store, created, skipped, calls, pending,
                                submitted, result>>
            ELSE IF skipExisting \/ ~dryRun
            THEN /\ Await(FindCall("topics", i, "name", topic.name),
                       "checkName", pending)
                 /\ UNCHANGED <<store, i, key, counts, submitted, log, result>>
            ELSE /\ Topics_Prepare(topic, pending)
                 /\ UNCHANGED <<store, result>>
    /\ UNCHANGED <<options, caches, exists, missing>>

\* Lines 132-148: one turn of the loop up to its first await, and the return
\* after the last element.
Topics_Loop ==
    /\ kind = "topics"
    /\ pc = "loop"
    /\ IF i > Len(input)
       THEN /\ Return(created, skipped, failed)
            /\ UNCHANGED <<store, i, key, counts, calls, pending, submitted, log>>
       ELSE LET topic == input[i] IN
            IF topic.t = "null"
            THEN Throw("TypeError")
            ELSE IF ~Truthy(topic.name)
            THEN /\ failed' = failed + 1
                 /\ log' = Append(log, Line(i, "without name"))
                 /\ NextRecord
                 /\ UNCHANGED <<store, created, skipped, calls, pending,
                                submitted, result>>
            ELSE IF skipExisting
            THEN /\ Await(FindCall("topics", i, "name", topic.name),
                       "checkName", pending)
                 /\ UNCHANGED <<store, i, key, counts, submitted, log, result>>
            ELSE /\ Topics_Prepare(topic, pending)
                 /\ UNCHANGED <<store, result>>
    /\ UNCHANGED <<options, caches, exists, missing>>

\* Mutant: one match is not enough.
checkExistingTopic_OffByOne(name) == Len(FindMany(store.topics, "name", name)) > 1

\* Lines 59-64 and 142-148: checkExistingTopic answers.
checkExistingTopic(name) == Len(FindMany(store.topics, "name", name)) > 0

Topics_CheckReturns ==
    /\ kind = "topics"
    /\ pc = "checkName"
    /\ exists' = checkExistingTopic(input[i].name)
    /\ IF exists'
       THEN /\ skipped' = skipped + 1
            /\ log' = Append(log, Line(i, "skipping existing"))
            /\ NextRecord
            /\ pending' = Tail(pending)
            /\ UNCHANGED <<created, failed, calls, submitted>>
       ELSE Topics_Prepare(input[i], Tail(pending))
    /\ UNCHANGED <<options, store, caches, missing, result>>

\* findMany rejects: checkExistingTopic has no try, nor has the loop.
Topics_CheckThrows ==
    /\ kind = "topics"
    /\ pc = "checkName"
    /\ Throw("existence query rejected")
    /\ UNCHANGED exists

\* Mutant: a rejected create is tried once more before it counts as failed.
Topics_CreateReturns_Retry ==
    /\ kind = "topics"
    /\ pc = "create"
    /\ \E ok \in BOOLEAN :
          IF ok
          THEN /\ store' = CreateDocument(store, "topics",
                                          submitted[Len(submitted)].entry)
               /\ created' = created + 1
               /\ log' = Append(log, Line(i, "created"))
               /\ pending' = Tail(pending)
               /\ NextRecord
               /\ UNCHANGED <<failed, calls>>
          ELSE IF Len(SelectSeq(calls, LAMBDA c : c.op = "create" /\ c.idx = i)) < 2
          THEN /\ Await(CreateCall("topics", i), "create", Tail(pending))
               /\ UNCHANGED <<store, created, failed, log, i, key>>
          ELSE /\ failed' = failed + 1
               /\ log' = Append(log, Line(i, "failed to create"))
               /\ pending' = Tail(pending)
               /\ NextRecord
               /\ UNCHANGED <<store, created, calls>>
    /\ UNCHANGED <<options, caches, exists, skipped, missing, submitted, result>>

\* Lines 42-57 and 160-165: createQuestionTopic returns the document, or null
\* when create rejected.
Topics_CreateReturns ==
    /\ kind = "topics"
    /\ pc = "create"
    /\ \E ok \in BOOLEAN :
          IF ok
          THEN /\ store' = CreateDocument(store, "topics",
                                          submitted[Len(submitted)].entry)
               /\ created' = created + 1
               /\ log' = Append(log, Line(i, "created"))
               /\ UNCHANGED failed
          ELSE /\ failed' = failed + 1
               /\ log' = Append(log, Line(i, "failed to create"))
               /\ UNCHANGED <<store, created>>
    /\ pending' = Tail(pending)
    /\ NextRecord
    /\ UNCHANGED <<options, caches, exists, skipped, missing, calls, submitted,
                   result>>

importQuestionTopics ==
    \/ Topics_ReadFile
    \/ Topics_Loop
    \/ Topics_CheckReturns
    \/ Topics_CheckThrows
    \/ Topics_CreateReturns

---------------------------------------------------------------------------
\* importQuestionTags

\* Lines 68-94: the file checks.
Tags_ReadFile ==
    /\ kind = "tags"
    /\ pc = "start"
    /\ IF fileState # "array"
       THEN Return(0, 0, 0)
       ELSE pc' = "loop" /\ UNCHANGED <<result, error>>
    /\ UNCHANGED <<options, store, caches, i, key, exists, counts, missing,
                   calls, pending, submitted, log>>

\* Mutant: the dry run logs the element and forgets to count it.
Tags_Prepare_DryUncounted(tag, slug, pend) ==
    IF dryRun
    THEN /\ log' = Append(log, Line(i, "would create"))
         /\ NextRecord
         /\ pending' = pend
         /\ UNCHANGED <<counts, calls, submitted>>
    ELSE /\ Await(CreateCall("tags", i), "create", pend)
         /\ submitted' = Append(submitted,
                [idx |-> i, entry |-> [name |-> tag.name, slug |-> slug]])
         /\ key' = slug
         /\ UNCHANGED <<i, counts, log>>

\* Lines 128-144: the entry, and the dry-run count or the create call.
Tags_Prepare(tag, slug, pend) ==
    LET entry == [name |-> tag.name, slug |-> slug]
    IN  IF dryRun
        THEN /\ created' = created + 1
             /\ log' = Append(log, Line(i, "would create"))
             /\ NextRecord
             /\ pending' = pend
             /\ UNCHANGED <<skipped, failed, calls, submitted>>
        ELSE /\ Await(CreateCall("tags", i), "create", pend)
             /\ submitted' = Append(submitted, [idx |-> i, entry |-> entry])
             /\ key' = slug
             /\ UNCHANGED <<i, counts, log>>

\* Line 116: tag.slug || generateSlug(tag.name).  generateSlug calls
\* str.toLowerCase(), which only a string has.
SlugThrows(tag) == ~Truthy(tag.slug) /\ tag.name.t # "string"
SlugOf(tag) == IF Truthy(tag.slug) THEN tag.slug ELSE Str(generateSlug(tag.name.s))

\* Lines 107-126: one turn of the loop up to its first await, and the return
\* after the last element.
Tags_Loop ==
    /\ kind = "tags"
    /\ pc = "loop"
    /\ IF i > Len(input)
       THEN /\ Return(created, skipped, failed)
            /\ UNCHANGED <<store, i, key, counts, calls, pending, submitted, log>>
       ELSE LET tag == input[i] IN
            IF tag.t = "null"
            THEN Throw("TypeError")
            ELSE IF ~Truthy(tag.name)
            THEN /\ failed' = failed + 1
                 /\ log' = Append(log, Line(i, "without name"))
                 /\ NextRecord
                 /\ UNCHANGED <<store, created, skipped, calls, pending,
                                submitted, result>>
            ELSE IF SlugThrows(tag)
            THEN Throw("TypeError")
            ELSE IF skipExisting
            THEN /\ Await(FindCall("tags", i, "name", tag.name),
                       "checkName", pending)
                 /\ key' = SlugOf(tag)
                 /\ UNCHANGED <<store, i, counts, submitted, log, result>>
            ELSE /\ Tags_Prepare(tag, SlugOf(tag), pending)
                 /\ UNCHANGED <<store, result>>
    /\ UNCHANGED <<options, caches, exists, missing>>

\* Lines 54-60: existingByName has arrived, the slug query goes out.
Tags_CheckNameReturns ==
    /\ kind = "tags"
    /\ pc = "checkName"
    /\ Await(FindCall("tags", i, "slug", key), "checkSlug", Tail(pending))
    /\ UNCHANGED <<options, store, caches, i, key, exists, counts, missing,
                   submitted, log, result>>

\* Mutant: both fields must match.
checkExistingTag_And(name, slug) ==
    /\ Len(FindMany(store.tags, "name", name)) > 0
    /\ Len(FindMany(store.tags, "slug", slug)) > 0

\* Lines 53-63: the value checkExistingTag resolves to.  The store is the
\* same at both queries: nothing else runs between them.
checkExistingTag(name, slug) ==
    LET existingByName == FindMany(store.tags, "name", name)
        existingBySlug == FindMany(store.tags, "slug", slug)
    IN  Len(existingByName) > 0 \/ Len(existingBySlug) > 0

\* Lines 58-62 and 120-126: existingBySlug has arrived.
Tags_CheckSlugReturns ==
    /\ kind = "tags"
    /\ pc = "checkSlug"
    /\ exists' = checkExistingTag(input[i].name, key)
    /\ IF exists'
       THEN /\ skipped' = skipped + 1
            /\ log' = Append(log, Line(i, "skipping existing"))
            /\ NextRecord
            /\ pending' = Tail(pending)
            /\ UNCHANGED <<created, failed, calls, submitted>>
       ELSE Tags_Prepare(input[i], key, Tail(pending))
    /\ UNCHANGED <<options, store, caches, missing, result>>

\* Either findMany rejects: checkExistingTag has no try, nor has the loop.
Tags_CheckThrows ==
    /\ kind = "tags"
    /\ pc \in {"checkName", "checkSlug"}
    /\ Throw("existence query rejected")
    /\ UNCHANGED exists

\* Lines 36-51 and 138-143: createQuestionTag returns the document, or null
\* when create rejected.
Tags_CreateReturns ==
    /\ kind = "tags"
    /\ pc = "create"
    /\ \E ok \in BOOLEAN :
          IF ok
          THEN /\ store' = CreateDocument(store, "tags",
                                          submitted[Len(submitted)].entry)
               /\ created' = created + 1
               /\ log' = Append(log, Line(i, "created"))
               /\ UNCHANGED failed
          ELSE /\ failed' = failed + 1
               /\ log' = Append(log, Line(i, "failed to create"))
               /\ UNCHANGED <<store, created>>
    /\ pending' = Tail(pending)
    /\ NextRecord
    /\ UNCHANGED <<options, caches, exists, skipped, missing, calls, submitted,
                   result>>

importQuestionTags ==
    \/ Tags_ReadFile
    \/ Tags_Loop
    \/ Tags_CheckNameReturns
    \/ Tags_CheckSlugReturns
    \/ Tags_CheckThrows
    \/ Tags_CreateReturns

---------------------------------------------------------------------------
\* importQuestions

sPublished == <<"p","u","b","l","i","s","h","e","d">>

\* Number.prototype.toString() of a non-negative integer
RECURSIVE Decimal(_)
Decimal(n) ==
    LET d == <<"0","1","2","3","4","5","6","7","8","9">>
    IN  IF n < 10 THEN <<d[n + 1]>> ELSE Decimal(n \div 10) \o <<d[(n % 10) + 1]>>

\* Date.now().toString(36) and Math.random().toString(36).substring(2, 6),
\* as the clock and the generator may give them.
Timestamps == {<<"m","1">>, <<"m","2">>}
Randoms == {<<>>, <<"a","1">>}

\* Mutant: the code is made of the timestamp and the random part alone.
generateCode_NoIndex(index, timestamp, random) ==
    Str(<<"Q", "-">> \o timestamp \o <<"-">> \o random)

\* Lines 142-146, with the two environment reads as parameters.
generateCode(index, timestamp, random) ==
    Str(<<"Q", "-">> \o timestamp \o <<"-">> \o random \o <<"-">> \o Decimal(index))

\* Mutant: the Array.isArray test is dropped.
Questions_ReadFile_NoArrayCheck ==
    /\ kind = "questions"
    /\ pc = "start"
    /\ IF fileState \in {"absent", "unparseable"}
       THEN /\ Return(0, 0, 0)
            /\ UNCHANGED <<calls, pending>>
       ELSE /\ Await(FindCall("topics", 0, "status", Str(sPublished)),
                  "loadTopics", pending)
            /\ UNCHANGED result
    /\ UNCHANGED <<options, store, caches, i, key, exists, counts, missing,
                   submitted, log>>

\* Lines 168-191: the file checks, then loadTopicsCache's query goes out.
Questions_ReadFile ==
    /\ kind = "questions"
    /\ pc = "start"
    /\ IF fileState # "array"
       THEN /\ Return(0, 0, 0)
            /\ UNCHANGED <<calls, pending>>
       ELSE /\ Await(FindCall("topics", 0, "status", Str(sPublished)),
                  "loadTopics", pending)
            /\ UNCHANGED result
    /\ UNCHANGED <<options, store, caches, i, key, exists, counts, missing,
                   submitted, log>>

\* Lines 74-85 and 192: the topics have arrived and are cached;
\* loadTagsCache's query goes out.
Questions_LoadTopicsReturns ==
    /\ kind = "questions"
    /\ pc = "loadTopics"
    /\ topicsCache' = CacheOf(FindPublished(store.topics))
    /\ Await(FindCall("tags", 0, "status", Str(sPublished)), "loadTags",
             Tail(pending))
    /\ UNCHANGED <<options, store, tagsCache, i, key, exists, counts, missing,
                   submitted, log, result>>

\* Mutant: the tags arrive and the loop starts with the cache left empty.
Questions_LoadTagsReturns_NotCached ==
    /\ kind = "questions"
    /\ pc = "loadTags"
    /\ tagsCache' = tagsCache
    /\ pending' = Tail(pending)
    /\ pc' = "loop"
    /\ UNCHANGED <<options, store, topicsCache, i, key, exists, counts, missing,
                   calls, submitted, log, result, error>>

\* Lines 90-101: the tags have arrived and are cached.
Questions_LoadTagsReturns ==
    /\ kind = "questions"
    /\ pc = "loadTags"
    /\ tagsCache' = CacheOf(FindPublished(store.tags))
    /\ pending' = Tail(pending)
    /\ pc' = "loop"
    /\ UNCHANGED <<options, store, topicsCache, i, key, exists, counts, missing,
                   calls, submitted, log, result, error>>

\* Either cache query rejects: nothing catches it.
Questions_LoadThrows ==
    /\ kind = "questions"
    /\ pc \in {"loadTopics", "loadTags"}
    /\ Throw("cache query rejected")
    /\ UNCHANGED exists

\* Lines 106-109.  name.toLowerCase() exists only on a string.
findTopicByNameThrows(name) == Truthy(name) /\ name.t # "string"
findTopicByName(name) ==
    IF ~Truthy(name) THEN [t |-> "null", documentId |-> UndefinedId]
    ELSE LET topic == PropertyRead(topicsCache, ToLowerCase(name.s))
         IN  IF topic.t = "object" THEN topic
             ELSE [t |-> "null", documentId |-> UndefinedId]

\* Lines 114-125.
findTagsByNamesThrows(names) ==
    names.t = "array" /\ \E k \in DOMAIN names.a : names.a[k].t # "string"
findTagsByNames(names) ==
    IF names.t # "array" THEN <<>>
    ELSE LET reads == [k \in DOMAIN names.a |->
                          PropertyRead(tagsCache, ToLowerCase(names.a[k].s))]
         IN  SelectSeq(reads, LAMBDA tag : tag.t = "object")

\* Lines 242-251: topicId and what the record adds to missingTopics.
TopicIdOf(q) ==
    IF Truthy(q.topic) /\ findTopicByName(q.topic).t = "object"
    THEN findTopicByName(q.topic).documentId
    ELSE NullId
MissingTopicsOf(q) ==
    IF Truthy(q.topic) /\ findTopicByName(q.topic).t # "object"
    THEN {q.topic} ELSE {}

\* Lines 253-265: tagIds and what the record adds to missingTags.
TagIdsOf(q) ==
    IF q.tags.t = "array"
    THEN LET tags == findTagsByNames(q.tags)
         IN  [k \in DOMAIN tags |-> tags[k].documentId]
    ELSE <<>>
MissingTagsOf(q) ==
    IF q.tags.t = "array"
    THEN {q.tags.a[k] : k \in
            {m \in DOMAIN q.tags.a :
                PropertyRead(tagsCache, ToLowerCase(q.tags.a[m].s)).t # "object"}}
    ELSE {}

\* Lines 267-280.
QuestionEntry(q, code) ==
    [code |-> code,
     question |-> convertToBlocks(q.question),
     type |-> Or(q.type, Str(<<"s","i","n","g","l","e">>)),
     answers |-> q.answers,
     correctAnswer |-> q.correctAnswer,
     explanation |-> convertToBlocks(q.explanation),
     difficulty |-> Or(q.difficulty, Str(<<"e","a","s","y">>)),
     source |-> Or(q.source, Null),
     version |-> Or(q.version, Num(<<"1">>)),
     question_topic |-> TopicIdOf(q),
     question_tags |-> TagIdsOf(q)]

\* Lines 242-292: the references, the entry, and the dry-run count or the
\* create call.
Questions_Prepare(q, code, pend) ==
    IF findTopicByNameThrows(q.topic) \/ findTagsByNamesThrows(q.tags)
    THEN Throw("TypeError")
    ELSE /\ missingTopics' = missingTopics \cup MissingTopicsOf(q)
         /\ missingTags' = missingTags \cup MissingTagsOf(q)
         /\ IF dryRun
            THEN /\ created' = created + 1
                 /\ log' = Append(log, Line(i, "would create"))
                 /\ NextRecord
                 /\ pending' = pend
                 /\ UNCHANGED <<skipped, failed, calls, submitted>>
            ELSE /\ Await(CreateCall("questions", i), "create", pend)
                 /\ submitted' = Append(submitted,
                                    [idx |-> i, entry |-> QuestionEntry(q, code)])
                 /\ key' = code
                 /\ UNCHANGED <<i, counts, log>>
         /\ UNCHANGED <<options, store, caches, result>>

\* Lines 207-240: one turn of the loop up to its first await, and lines
\* 295-303 after the last element.
Questions_Loop ==
    /\ kind = "questions"
    /\ pc = "loop"
    /\ IF i > Len(input)
       THEN /\ Return(created, skipped, failed)
            /\ UNCHANGED <<store, i, key, counts, missing, calls, pending,
                           submitted, log>>
       ELSE LET q == input[i] IN
            IF q.t = "null"
            THEN Throw("TypeError")
            ELSE \E timestamp \in Timestamps, random \in Randoms :
            LET code == IF Truthy(q.code) THEN q.code
                        ELSE generateCode(i - 1, timestamp, random) IN
            IF ~TruthyText(q.question)
            THEN /\ failed' = failed + 1
                 /\ log' = Append(log, Line(i, "missing question text"))
                 /\ NextRecord
                 /\ UNCHANGED <<store, created, skipped, missing, calls,
                                pending, submitted, result>>
            ELSE IF MissingOrEmptyArray(q.answers)
            THEN /\ failed' = failed + 1
                 /\ log' = Append(log, Line(i, "missing or invalid answers"))
                 /\ NextRecord
                 /\ UNCHANGED <<store, created, skipped, missing, calls,
                                pending, submitted, result>>
            ELSE IF MissingOrEmptyArray(q.correctAnswer)
            THEN /\ failed' = failed + 1
                 /\ log' = Append(log, Line(i, "missing or invalid correctAnswer"))
                 /\ NextRecord
                 /\ UNCHANGED <<store, created, skipped, missing, calls,
                                pending, submitted, result>>
            ELSE IF skipExisting /\ Truthy(q.code)
            THEN /\ Await(FindCall("questions", i, "code", q.code),
                       "checkName", pending)
                 /\ key' = code
                 /\ UNCHANGED <<store, i, counts, missing, submitted, log, result>>
            ELSE Questions_Prepare(q, code, pending)
    /\ UNCHANGED <<options, caches, exists>>

\* Mutant: the check looks at what the store held when the run started.
checkExistingQuestion_Snapshot(code) ==
    IF ~Truthy(code) THEN FALSE
    ELSE Len(FindMany(initialStore.questions, "code", code)) > 0

\* Lines 130-137.
checkExistingQuestion(code) ==
    IF ~Truthy(code) THEN FALSE
    ELSE Len(FindMany(store.questions, "code", code)) > 0

\* Lines 234-240: checkExistingQuestion answers.
Questions_CheckReturns ==
    /\ kind = "questions"
    /\ pc = "checkName"
    /\ exists' = checkExistingQuestion(input[i].code)
    /\ IF exists'
       THEN /\ skipped' = skipped + 1
            /\ log' = Append(log, Line(i, "skipping existing"))
            /\ NextRecord
            /\ pending' = Tail(pending)
            /\ UNCHANGED <<created, failed, missing, calls, submitted, store,
                           result>>
       ELSE Questions_Prepare(input[i], key, Tail(pending))
    /\ UNCHANGED <<options, caches>>

\* findMany rejects: checkExistingQuestion has no try, nor has the loop.
Questions_CheckThrows ==
    /\ kind = "questions"
    /\ pc = "checkName"
    /\ Throw("existence query rejected")
    /\ UNCHANGED exists

\* Mutant: a create that fails is logged and not counted.
Questions_CreateReturns_FailureUncounted ==
    /\ kind = "questions"
    /\ pc = "create"
    /\ \E ok \in BOOLEAN :
          IF ok
          THEN /\ store' = CreateDocument(store, "questions",
                                          submitted[Len(submitted)].entry)
               /\ created' = created + 1
               /\ log' = Append(log, Line(i, "created"))
               /\ UNCHANGED failed
          ELSE /\ failed' = failed
               /\ log' = Append(log, Line(i, "failed to create"))
               /\ UNCHANGED <<store, created>>
    /\ pending' = Tail(pending)
    /\ NextRecord
    /\ UNCHANGED <<options, caches, exists, skipped, missing, calls, submitted,
                   result>>

\* Lines 148-163 and 286-291: createQuestion returns the document, or null
\* when create rejected.
Questions_CreateReturns ==
    /\ kind = "questions"
    /\ pc = "create"
    /\ \E ok \in BOOLEAN :
          IF ok
          THEN /\ store' = CreateDocument(store, "questions",
                                          submitted[Len(submitted)].entry)
               /\ created' = created + 1
               /\ log' = Append(log, Line(i, "created"))
               /\ UNCHANGED failed
          ELSE /\ failed' = failed + 1
               /\ log' = Append(log, Line(i, "failed to create"))
               /\ UNCHANGED <<store, created>>
    /\ pending' = Tail(pending)
    /\ NextRecord
    /\ UNCHANGED <<options, caches, exists, skipped, missing, calls, submitted,
                   result>>

importQuestions ==
    \/ Questions_ReadFile
    \/ Questions_LoadTopicsReturns
    \/ Questions_LoadTagsReturns
    \/ Questions_LoadThrows
    \/ Questions_Loop
    \/ Questions_CheckReturns
    \/ Questions_CheckThrows
    \/ Questions_CreateReturns

---------------------------------------------------------------------------
Next == importQuestionTopics \/ importQuestionTags \/ importQuestions

Spec == Init /\ [][Next]_vars

---------------------------------------------------------------------------
\* The two block conversions on their own: a value of a text field
\* (question, explanation, description) is converted, and the result may be
\* converted again, as when an exported file is imported anew.

MaxText == 3
MaxPasses == 2
TextChars == {"a", " ", "0"}
ContentInputs ==
    {StrText(s) : s \in SeqUpTo(TextChars, MaxText)}
    \cup {Blocks(<<>>), Blocks(<<Paragraph(<<"a">>)>>),
          Blocks(<<Paragraph(<<"a">>), Paragraph(<<>>)>>)}
    \cup {UndefinedText, NullText, NumText(<<"0">>), NumText(<<"7">>)}

InitBlocks ==
    /\ kind = "questions"
    /\ fileState = "absent"
    /\ skipExisting = TRUE
    /\ dryRun = FALSE
    /\ input = <<>>
    /\ initialStore = EmptyStore
    /\ store = EmptyStore
    /\ topicsCache = EmptyObject
    /\ tagsCache = EmptyObject
    /\ pc = "start"
    /\ i = 1
    /\ key = Undefined
    /\ exists = FALSE
    /\ created = 0
    /\ skipped = 0
    /\ failed = 0
    /\ missingTopics = {}
    /\ missingTags = {}
    /\ calls = <<>>
    /\ pending = <<>>
    /\ submitted = <<>>
    /\ log = <<>>
    /\ result = NotReturned
    /\ error = ""
    /\ content \in ContentInputs
    /\ blocks = content
    /\ passes = 0

run == <<kind, fileState, skipExisting, dryRun, input, initialStore, store,
         topicsCache, tagsCache, pc, i, key, exists, created, skipped, failed,
         missingTopics, missingTags, calls, pending, submitted, log, result,
         error>>

Apply_convertToBlocks ==
    /\ passes < MaxPasses
    /\ blocks' = convertToBlocks(blocks)
    /\ passes' = passes + 1
    /\ UNCHANGED <<run, content>>

Apply_convertDescriptionToBlocks ==
    /\ passes < MaxPasses
    /\ blocks' = convertDescriptionToBlocks(blocks)
    /\ passes' = passes + 1
    /\ UNCHANGED <<run, content>>

NextBlocks == Apply_convertToBlocks \/ Apply_convertDescriptionToBlocks

SpecBlocks == InitBlocks /\ [][NextBlocks]_vars

---------------------------------------------------------------------------
\* Properties

\* What the checked statements read off a run.
CreateCallsFor(j) == {k \in DOMAIN calls : calls[k].op = "create" /\ calls[k].idx = j}
FindCallsFor(j) == {k \in DOMAIN calls : calls[k].op = "findMany" /\ calls[k].idx = j}
LinesFor(j) == {k \in DOMAIN log : log[k].idx = j}
AtRecord == pc = "loop" /\ i <= Len(input)

\* A scalar field that is absent, null or the empty string.
Absent(v) == v.t \in {"undefined", "null"} \/ (v.t = "string" /\ Len(v.s) = 0)
\* A list field that is not an array with at least one element.
NoElements(x) == ~(x.t = "array" /\ Len(x.a) >= 1)

\* An element that is an object and lacks a required field: name for topics
\* and tags; question text, answers, correctAnswer for questions.
LacksRequiredField(r) ==
    /\ r.t = "object"
    /\ IF kind = "questions"
       THEN \/ r.question.t \in {"undefined", "null"}
            \/ (r.question.t = "string" /\ Len(r.question.s) = 0)
            \/ NoElements(r.answers)
            \/ NoElements(r.correctAnswer)
       ELSE Absent(r.name)

\* C1: whenever the loop handles an element that lacks a required field,
\* failed grows by exactly one, created and skipped stay, no store call of any
\* kind is issued for it (so no create), and the loop moves on.
C1_MissingFieldFails ==
    [][ (AtRecord /\ LacksRequiredField(input[i])) =>
           /\ failed' = failed + 1
           /\ created' = created
           /\ skipped' = skipped
           /\ calls' = calls
           /\ submitted' = submitted
           /\ store' = store
           /\ i' = i + 1
           /\ pc' = "loop" ]_vars

\* C1 witness: a questions run has counted an element with an empty answers
\* array as failed and gone on to finish.
C1_Witness ==
    /\ kind = "questions"
    /\ pc = "done"
    /\ \E j \in DOMAIN input :
          /\ LacksRequiredField(input[j])
          /\ input[j].answers = Array(<<>>)
          /\ \E k \in LinesFor(j) : log[k].msg = "missing or invalid answers"
          /\ CreateCallsFor(j) = {}
    /\ result.failed >= 1

\* The natural key of the element in hand is in the store: the topic name, the
\* tag name or the tag slug, the question code.
KeyInStore ==
    CASE kind = "topics" ->
           \E k \in DOMAIN store.topics : store.topics[k].name = input[i].name
      [] kind = "tags" ->
           \E k \in DOMAIN store.tags :
              \/ store.tags[k].name = input[i].name
              \/ store.tags[k].slug = key
      [] kind = "questions" ->
           \E k \in DOMAIN store.questions : store.questions[k].code = input[i].code

\* A valid element with a natural key to look up: every valid topic and tag, a
\* valid question that supplies a code.
HasNaturalKey(r) ==
    /\ r.t = "object"
    /\ ~LacksRequiredField(r)
    /\ kind = "questions" => ~Absent(r.code)

\* The step in which the store's answer to the (last) existence query of the
\* element in hand arrives.
ExistenceAnswered ==
    /\ pc = (IF kind = "tags" THEN "checkSlug" ELSE "checkName")
    /\ pc' # "threw"

\* C2: with skipExisting, the existence query goes out for every valid element
\* with a natural key, and when the store answers that the key exists, skipped
\* grows by exactly one, created and failed stay, no create call goes out and
\* the loop moves on.
C2_ExistingSkipped ==
    [][ /\ (ExistenceAnswered /\ KeyInStore) =>
              /\ skipExisting
              /\ skipped' = skipped + 1
              /\ created' = created
              /\ failed' = failed
              /\ calls' = calls
              /\ submitted' = submitted
              /\ store' = store
              /\ i' = i + 1
              /\ pc' = "loop"
        /\ (AtRecord /\ skipExisting /\ HasNaturalKey(input[i]) /\ pc' # "threw") =>
              /\ pc' = "checkName"
              /\ Len(calls') = Len(calls) + 1
              /\ calls'[Len(calls')].op = "findMany"
              /\ calls'[Len(calls')].idx = i ]_vars

\* C2 witness: a tags run with skipExisting has skipped an element of which
\* only the slug was in the store, and no create was issued for it.
C2_Witness ==
    /\ kind = "tags"
    /\ skipExisting
    /\ ~dryRun
    /\ skipped >= 1
    /\ \E j \in 1..(i - 1) :
          /\ j \in DOMAIN input
          /\ input[j] = Tag(Str(sHard), Str(sEasySlug))
          /\ \E k \in LinesFor(j) : log[k].msg = "skipping existing"
          /\ CreateCallsFor(j) = {}

\* C3: in a dry run no create call is ever issued, no entry is handed to
\* create and the store keeps its contents, whatever skipExisting is.
C3_DryRunNeverCreates ==
    dryRun =>
        /\ \A k \in DOMAIN calls : calls[k].op # "create"
        /\ submitted = <<>>
        /\ store = initialStore

\* C3 witness: a dry run with skipExisting off has returned after counting
\* would-be creations.
C3_Witness ==
    /\ dryRun
    /\ ~skipExisting
    /\ pc = "done"
    /\ result.created >= 2

\* What a run that is not dry creates from the same array, options and
\* initial store when every store call succeeds: the loop of the script with
\* dryRun false, from element j on, over store st.
ExistsIn(st, r) ==
    CASE kind = "topics" -> Len(FindMany(st.topics, "name", r.name)) > 0
      [] kind = "tags" -> \/ Len(FindMany(st.tags, "name", r.name)) > 0
                          \/ Len(FindMany(st.tags, "slug", SlugOf(r))) > 0
      [] kind = "questions" -> /\ Truthy(r.code)
                               /\ Len(FindMany(st.questions, "code", r.code)) > 0
EntryFor(j, r) ==
    CASE kind = "topics" ->
           [name |-> r.name,
            description |-> convertDescriptionToBlocks(r.description)]
      [] kind = "tags" -> [name |-> r.name, slug |-> SlugOf(r)]
      [] kind = "questions" ->
           QuestionEntry(r, IF Truthy(r.code) THEN r.code
                            ELSE generateCode(j - 1, <<"m","1">>, <<>>))
RECURSIVE NonDryCreated(_, _)
NonDryCreated(j, st) ==
    IF j > Len(input) THEN 0
    ELSE IF LacksRequiredField(input[j]) THEN NonDryCreated(j + 1, st)
    ELSE IF skipExisting /\ ExistsIn(st, input[j]) THEN NonDryCreated(j + 1, st)
    ELSE 1 + NonDryCreated(j + 1, CreateDocument(st, kind, EntryFor(j, input[j])))

\* NonDryCreated is the count of the modelled run that is not dry, whenever
\* that run finished and no create was rejected.
NonDryCreated_IsTheRun ==
    (pc = "done" /\ fileState = "array" /\ ~dryRun /\ result.failed = failed
       /\ \A k \in DOMAIN log : log[k].msg # "failed to create")
    => result.created = NonDryCreated(1, initialStore)

\* C4 (as claimed): a finished dry run returns as created the number of
\* elements the run that is not dry would create from the same array, options
\* and initial store.
C4_DryRunCountIsRealCount ==
    (pc = "done" /\ fileState = "array" /\ dryRun)
    => result.created = NonDryCreated(1, initialStore)

\* C5 (as claimed): a dry run issues no store call, find or create, for any
\* element.
C5_DryRunNoStoreCallForRecord ==
    dryRun => \A k \in DOMAIN calls : calls[k].idx = 0

\* C5 (amended): a dry run issues no create and only counts; the existence
\* query is still issued, exactly for the valid elements with a natural key
\* and only with skipExisting; every element counted created has its
\* "would create" line, and nothing else touches the store.
C5_DryRunOnlyReads ==
    dryRun =>
        /\ \A k \in DOMAIN calls :
              /\ calls[k].op = "findMany"
              /\ calls[k].idx > 0 =>
                    skipExisting /\ HasNaturalKey(input[calls[k].idx])
        /\ \A j \in 1..(i - 1) :
              (skipExisting /\ HasNaturalKey(input[j])) => FindCallsFor(j) # {}
        /\ created = Cardinality({k \in DOMAIN log : log[k].msg = "would create"})
        /\ \A k \in DOMAIN log : log[k].msg \notin {"created", "failed to create"}
        /\ store = initialStore

\* C5 witness: a dry run with skipExisting has queried the store for the tag
\* "New Tag!" by name and by its generated slug "new-tag", found nothing and
\* counted the element as created.
C5_Witness ==
    /\ dryRun
    /\ skipExisting
    /\ kind = "tags"
    /\ created >= 1
    /\ \E j \in 1..(i - 1) :
          /\ Cardinality(FindCallsFor(j)) = 2
          /\ \E k \in FindCallsFor(j) :
                calls[k] = FindCall("tags", j, "slug", Str(sNewTagSlug))
          /\ \E k \in LinesFor(j) : log[k].msg = "would create"

\* C6: when checkExistingTag resolves, its value is true exactly when the
\* store holds a tag with the element's name or a tag with its slug; the two
\* queries it issued carried that name and that slug.
C6_TagExistsIsNameOrSlug ==
    [][ (kind = "tags" /\ pc = "checkSlug" /\ pc' # "threw") =>
           /\ exists' <=> \E k \in DOMAIN store.tags :
                             \/ store.tags[k].name = input[i].name
                             \/ store.tags[k].slug = key
           /\ LET n == Len(calls) IN
              /\ n >= 2
              /\ calls[n - 1] = FindCall("tags", i, "name", input[i].name)
              /\ calls[n] = FindCall("tags", i, "slug", key)
           /\ key = (IF Absent(input[i].slug)
                     THEN Str(generateSlug(input[i].name.s)) ELSE input[i].slug) ]_vars

\* C6 witness: checkExistingTag gave true for an element whose name is in the
\* store while its slug is not.
C6_Witness ==
    /\ kind = "tags"
    /\ exists
    /\ pc = "loop"
    /\ i - 1 \in DOMAIN input
    /\ input[i - 1] = Tag(Str(sEasy), Str(sCustom))
    /\ \E k \in DOMAIN store.tags : store.tags[k].name = Str(sEasy)
    /\ \A k \in DOMAIN store.tags : store.tags[k].slug # Str(sCustom)
    /\ \E k \in LinesFor(i - 1) : log[k].msg = "skipping existing"

\* C7: when the file is absent, unparseable or not an array, the run does not
\* throw, issues no store call, loads no cache, leaves the store alone and
\* returns {created: 0, skipped: 0, failed: 0}.
C7_BadFileZeroResult ==
    fileState # "array" =>
        /\ pc \in {"start", "done"}
        /\ error = ""
        /\ calls = <<>>
        /\ topicsCache = EmptyObject
        /\ tagsCache = EmptyObject
        /\ store = initialStore
        /\ pc = "done" => result = ImportResult(0, 0, 0)

\* C7 witness: importQuestions has returned for a file that holds JSON that
\* is not an array.
C7_Witness ==
    /\ kind = "questions"
    /\ fileState = "notArray"
    /\ pc = "done"
    /\ result = ImportResult(0, 0, 0)

\* C8 (as claimed): once the file parsed to an array, nothing about a single
\* element makes the run throw; only a rejected cache query ends it early.
C8_NoRecordAbortsTheRun ==
    pc = "threw" => error = "cache query rejected"

\* C9: in a run that is not dry the answer to a create call ends the element:
\* exactly one create call was issued for it and none follows, created grows
\* by one when the store took the document and failed by one when it did not,
\* and the loop moves on.
C9_CreateOnceThenCount ==
    [][ /\ pc = "create" =>
              /\ ~dryRun
              /\ Cardinality(CreateCallsFor(i)) = 1
              /\ calls' = calls
              /\ submitted' = submitted
              /\ skipped' = skipped
              /\ IF store' # store
                 THEN created' = created + 1 /\ failed' = failed
                 ELSE failed' = failed + 1 /\ created' = created
              /\ i' = i + 1
              /\ pc' = "loop"
        /\ \A j \in DOMAIN input :
              Cardinality({k \in DOMAIN calls' :
                              calls'[k].op = "create" /\ calls'[k].idx = j}) <= 1
      ]_vars

\* C9 witness: one create was rejected and a later one was accepted in the
\* same run.
C9_Witness ==
    /\ ~dryRun
    /\ pc = "done"
    /\ \E j, m \in DOMAIN input :
          /\ j < m
          /\ \E k \in LinesFor(j) : log[k].msg = "failed to create"
          /\ \E k \in LinesFor(m) : log[k].msg = "created"
    /\ result.created = 1
    /\ result.failed = 1

\* A name that is a key of a cache.
Resolves(cache, v) == v.t = "string" /\ ToLowerCase(v.s) \in DOMAIN cache
ResolvedIds(names) ==
    LET hit == SelectSeq(names, LAMBDA v : Resolves(tagsCache, v))
    IN  [m \in DOMAIN hit |-> DocId(tagsCache[ToLowerCase(hit[m].s)].documentId)]

\* C10 (as claimed): a valid question that got past the existence check is
\* handed to create whatever its references; an entry's question_topic is null
\* when the topic name is not in the cache, its question_tags are the ids of
\* the tag names that are in the cache, and every name that is not in its
\* cache is in missingTopics or missingTags.
C10_UnresolvedStillCreated ==
    (kind = "questions" /\ ~dryRun) =>
        /\ \A j \in 1..(i - 1) :
              (HasNaturalKey(input[j]) \/ ~LacksRequiredField(input[j]))
              => \/ \E k \in LinesFor(j) : log[k].msg = "skipping existing"
                 \/ \E k \in DOMAIN submitted : submitted[k].idx = j
        /\ \A k \in DOMAIN submitted :
              LET q == input[submitted[k].idx]
                  e == submitted[k].entry
              IN  /\ (~Absent(q.topic) /\ ~Resolves(topicsCache, q.topic)) =>
                        /\ e.question_topic = NullId
                        /\ q.topic \in missingTopics
                  /\ q.tags.t = "array" =>
                        /\ e.question_tags = ResolvedIds(q.tags.a)
                        /\ \A m \in DOMAIN q.tags.a :
                              ~Resolves(tagsCache, q.tags.a[m]) =>
                                  q.tags.a[m] \in missingTags


\* The identifiers of the published documents whose name equals the given
\* name once both are lowercased.
PublishedMatches(docs, v) ==
    { DocId(docs[n].documentId) : n \in
        { n \in DOMAIN docs : /\ docs[n].published
                              /\ ToLowerCase(docs[n].name.s) = ToLowerCase(v.s) } }
NamesWithMatch(docs, names) ==
    SelectSeq(names, LAMBDA v : PublishedMatches(docs, v) # {})

\* C11 (as claimed): in every entry handed to create, the topic link is the
\* identifier of a published topic whose lowercased name equals the record's
\* lowercased topic name when there is such a topic, and null when there is
\* none; the tag links are, in order, identifiers of published tags matching
\* the record's tag names in the same way, one for each name that has a match
\* and none for a name without.
C11_CaseInsensitiveResolution ==
    kind = "questions" =>
        \A k \in DOMAIN submitted :
            LET q == input[submitted[k].idx]
                e == submitted[k].entry
                hit == NamesWithMatch(store.tags, q.tags.a)
            IN  /\ ~Absent(q.topic) =>
                      IF PublishedMatches(store.topics, q.topic) # {}
                      THEN e.question_topic \in PublishedMatches(store.topics, q.topic)
                      ELSE e.question_topic = NullId
                /\ q.tags.t = "array" =>
                      /\ Len(e.question_tags) = Len(hit)
                      /\ \A n \in DOMAIN hit :
                            e.question_tags[n] \in PublishedMatches(store.tags, hit[n])

\* The block list the claim names for a string: one paragraph holding one
\* text node with that string.
OneParagraph(s) ==
    [t |-> "array", s |-> <<>>,
     a |-> << [type |-> "paragraph",
               children |-> << [type |-> "text", text |-> s] >>] >>]

\* C12 (as claimed): once a conversion has been applied, every string input,
\* the empty string included, has become the one-paragraph block list of
\* that string.
C12_EveryStringToParagraph ==
    (passes >= 1 /\ content.t = "string") => blocks = OneParagraph(content.s)

\* C12 (amended): each application of either conversion leaves a non-empty
\* string as the one-paragraph block list of that string, the empty string as
\* null and an array as the array it was given; and applying a conversion to
\* the result of an earlier one returns that result unchanged.
C12_BlocksConversion ==
    [][ /\ (content.t = "string" /\ content.s # <<>>) =>
               blocks' = OneParagraph(content.s)
        /\ (content.t = "string" /\ content.s = <<>>) => blocks'.t = "null"
        /\ content.t = "array" => blocks' = content
        /\ passes >= 1 => blocks' = blocks ]_vars

\* A three-character string has been converted twice and is the one-paragraph
\* block list the first conversion made of it.
C12_Witness ==
    /\ passes = 2
    /\ content = StrText(<<"a", " ", "0">>)
    /\ blocks = OneParagraph(<<"a", " ", "0">>)

\* C13: in a run with skipExisting = false the only find calls ever issued are
\* the cache loads (none belongs to a record), skipped stays 0, and every
\* element the loop handles that is an object with its required fields is,
\* unless handling it throws, handed to create in that very step (one create
\* call and one entry for it) or, in a dry run, counted as created; whether
\* its key is in the store plays no part.
C13_ForceNeverChecks ==
    [][ ~skipExisting =>
          /\ \A k \in DOMAIN calls' :
                calls'[k].op = "findMany" => calls'[k].idx = 0
          /\ skipped' = 0
          /\ (/\ AtRecord
              /\ input[i].t = "object"
              /\ ~LacksRequiredField(input[i])
              /\ pc' # "threw") =>
                IF dryRun
                THEN /\ created' = created + 1
                     /\ i' = i + 1
                     /\ calls' = calls
                ELSE /\ pc' = "create"
                     /\ calls' = Append(calls, CreateCall(kind, i))
                     /\ Len(submitted') = Len(submitted) + 1
                     /\ submitted'[Len(submitted')].idx = i ]_vars

\* C13 witness: a topics run without skipExisting against a store that holds
\* the topic Math has returned having created a second Math, with no find
\* call issued and nothing skipped.
C13_Witness ==
    /\ kind = "topics"
    /\ ~skipExisting
    /\ ~dryRun
    /\ pc = "done"
    /\ initialStore = PopulatedStore
    /\ Len(FindMany(store.topics, "name", Str(sMath))) = 2
    /\ \A k \in DOMAIN calls : calls[k].op = "create"
    /\ result.created >= 1
    /\ result.skipped = 0

\* C14: store calls never overlap and follow the input order. At most one
\* call is outstanding, and it is the last one issued. A step that issues a
\* call issues exactly one and leaves no earlier call outstanding; the call
\* belongs to the element the loop stands at, which no earlier call lies
\* beyond; and once an element's create has been issued no find for that
\* element follows.
C14_StoreCallsSequential ==
    [][ /\ Len(pending') <= 1
        /\ pending' # <<>> => pending' = <<calls'[Len(calls')]>>
        /\ calls' # calls =>
              LET new == calls'[Len(calls')] IN
              /\ calls' = Append(calls, new)
              /\ pending' = <<new>>
              /\ \A k \in DOMAIN calls : calls[k].idx <= new.idx
              /\ new.idx > 0 => new.idx = i
              /\ new.op = "findMany" => CreateCallsFor(new.idx) = {}
              /\ new.op = "create" =>
                    \A k \in FindCallsFor(new.idx) : calls[k] \notin
                        {pending'[n] : n \in DOMAIN pending'} ]_vars

\* C14 witness: a tags run has issued, for its first element, the find by
\* name, the find by slug and the create, in that order, and now awaits the
\* find by name of its second element, the only call outstanding.
C14_Witness ==
    /\ kind = "tags"
    /\ Len(calls) = 4
    /\ calls[1] = FindCall("tags", 1, "name", input[1].name)
    /\ calls[2].op = "findMany" /\ calls[2].idx = 1 /\ calls[2].field = "slug"
    /\ calls[3] = CreateCall("tags", 1)
    /\ calls[4].op = "findMany" /\ calls[4].idx = 2
    /\ pending = <<calls[4]>>

\* Two valid elements with the same natural key: the same topic name, the
\* same tag name or the same tag slug, the same supplied question code.
SharesKey(r1, r2) ==
    /\ HasNaturalKey(r1)
    /\ HasNaturalKey(r2)
    /\ CASE kind = "topics" -> r1.name = r2.name
         [] kind = "tags" ->
              \/ r1.name = r2.name
              \/ /\ ~SlugThrows(r1)
                 /\ ~SlugThrows(r2)
                 /\ SlugOf(r1) = SlugOf(r2)
         [] kind = "questions" -> r1.code = r2.code
WasCreated(j) == \E k \in LinesFor(j) : log[k].msg = "created"
SuppliedCodes == {input[j].code : j \in {j \in DOMAIN input : HasNaturalKey(input[j])}}
SameKeyDocs(d1, d2) ==
    CASE kind = "topics" -> d1.name = d2.name
      [] kind = "tags" -> d1.name = d2.name \/ d1.slug = d2.slug
      [] kind = "questions" -> d1.code = d2.code /\ d1.code \in SuppliedCodes

\* C15: in a run with skipExisting that is not a dry run, once an element has
\* been created no create call is ever issued for a later element sharing its
\* natural key, and when the loop is past that later element it has logged it
\* as skipped; and no document the run added to the store shares its natural
\* key with another document of the store.
C15_DuplicatesInRunSkipped ==
    (skipExisting /\ ~dryRun) =>
        /\ \A a, b \in DOMAIN input :
              (a < b /\ SharesKey(input[a], input[b]) /\ WasCreated(a)) =>
                  /\ CreateCallsFor(b) = {}
                  /\ b < i => \E k \in LinesFor(b) : log[k].msg = "skipping existing"
        /\ \A m, n \in DOMAIN store[kind] :
              (m < n /\ n > Len(initialStore[kind])) =>
                  ~SameKeyDocs(store[kind][m], store[kind][n])

\* C15 witness: a tags run on an empty store has created Easy (slug easy) and
\* then skipped an element of another name that supplies the slug easy; the
\* run returned created 1, skipped 1 with a single create call.
C15_Witness ==
    /\ kind = "tags"
    /\ skipExisting
    /\ ~dryRun
    /\ initialStore = EmptyStore
    /\ input = <<Tag(Str(sEasy), Undefined), Tag(Str(sHard), Str(sEasySlug))>>
    /\ pc = "done"
    /\ result = ImportResult(1, 1, 0)
    /\ Len(store.tags) = 1
    /\ CreateCallsFor(1) # {}
    /\ CreateCallsFor(2) = {}

\* A cache that holds the published documents of a collection: its keys are
\* their lowercased names and each key's value is a published document of
\* that lowercased name.
HoldsPublished(cache, docs) ==
    /\ DOMAIN cache = {ToLowerCase(docs[n].name.s) :
                          n \in {n \in DOMAIN docs : docs[n].published}}
    /\ \A k \in DOMAIN cache :
          \E n \in DOMAIN docs : /\ docs[n].published
                                 /\ ToLowerCase(docs[n].name.s) = k
                                 /\ cache[k] = docs[n]
CachesLoaded ==
    /\ HoldsPublished(topicsCache, store.topics)
    /\ HoldsPublished(tagsCache, store.tags)
ProcessingRecords == pc \in {"loop", "checkName", "create"}

\* C16: in a questions run, as long as a cache load is under way nothing of
\* any element has happened (no log line, no per-element call, no counter
\* moved, the loop at its first element); from the moment the loop starts both
\* caches hold the published topics and tags of the store; and no step taken
\* from then on, up to and including the return, changes either cache.
C16_CachesLoadedThenFrozen ==
    [][ kind = "questions" =>
          /\ pc' \in {"start", "loadTopics", "loadTags"} =>
                /\ log' = <<>>
                /\ submitted' = <<>>
                /\ i' = 1
                /\ created' + skipped' + failed' = 0
                /\ \A k \in DOMAIN calls' : calls'[k].idx = 0
          /\ (pc # "loop" /\ pc' = "loop") => CachesLoaded'
          /\ ProcessingRecords =>
                /\ CachesLoaded
                /\ topicsCache' = topicsCache
                /\ tagsCache' = tagsCache ]_vars

\* C16 witness: a questions run against the populated store has returned after
\* two elements, and the caches hold the published topic Math and the
\* published tag Easy under their lowercased names (not the unpublished Geo).
C16_Witness ==
    /\ kind = "questions"
    /\ pc = "done"
    /\ initialStore = PopulatedStore
    /\ Len(input) = 2
    /\ i = 3
    /\ DOMAIN topicsCache = {sMathLower}
    /\ topicsCache[sMathLower].documentId = 1
    /\ DOMAIN tagsCache = {ToLowerCase(sEasy)}
    /\ tagsCache[ToLowerCase(sEasy)].documentId = 3

\* C17: in a questions run, any two entries handed to create for elements
\* that supply no code carry different codes, whatever timestamp and random
\* part each code was made of; and for an element that supplies no code no
\* find call is ever issued and no skip is ever logged.
C17_SynthesizedCodesDiffer ==
    kind = "questions" =>
        /\ \A a, b \in DOMAIN submitted :
              (/\ a # b
               /\ Absent(input[submitted[a].idx].code)
               /\ Absent(input[submitted[b].idx].code))
              => submitted[a].entry.code # submitted[b].entry.code
        /\ \A j \in DOMAIN input :
              (input[j].t = "object" /\ Absent(input[j].code)) =>
                  /\ FindCallsFor(j) = {}
                  /\ \A k \in LinesFor(j) : log[k].msg # "skipping existing"

\* C17 witness: with skipExisting, two elements without a code were handed to
\* create with codes made of the same timestamp and the same random part,
\* which differ in the index alone; no existence query was issued.
C17_Witness ==
    /\ kind = "questions"
    /\ skipExisting
    /\ Len(submitted) = 2
    /\ Absent(input[1].code)
    /\ Absent(input[2].code)
    /\ submitted[1].entry.code = Str(<<"Q", "-", "m", "1", "-", "-", "0">>)
    /\ submitted[2].entry.code = Str(<<"Q", "-", "m", "1", "-", "-", "1">>)
    /\ \A k \in DOMAIN calls : calls[k].op = "findMany" => calls[k].idx = 0

\* The "created" lines of the log: the create calls that succeeded.
SucceededCreates == {k \in DOMAIN log : log[k].msg = "created"}

\* C18: the loop moves past an element exactly in a step in which one of
\* created, skipped, failed grows by one and the other two stay, and in no
\* other step does a counter change; a run over an array that returns,
\* returns its three counters, and they add up to the length of the array;
\* and in a run that is not a dry run created is at every moment the number
\* of create calls that succeeded, which is the number of documents the run
\* has added to the store.
C18_EveryRecordCountedOnce ==
    [][ /\ i' # i =>
              /\ i' = i + 1
              /\ created' + skipped' + failed' = created + skipped + failed + 1
              /\ created' >= created
              /\ skipped' >= skipped
              /\ failed' >= failed
        /\ i' = i => <<created', skipped', failed'>> = <<created, skipped, failed>>
        /\ (pc' = "done" /\ fileState = "array") =>
              /\ result' = ImportResult(created', skipped', failed')
              /\ result'.created + result'.skipped + result'.failed = Len(input)
        /\ ~dryRun =>
              /\ created' = Cardinality(SucceededCreates')
              /\ created' = Len(store'[kind]) - Len(initialStore[kind]) ]_vars

\* C18 witness: a questions run that is not a dry run has returned from an
\* array of two elements with created 1, skipped 0, failed 1, after two create
\* calls of which one succeeded.
C18_Witness ==
    /\ kind = "questions"
    /\ ~dryRun
    /\ pc = "done"
    /\ Len(input) = 2
    /\ result = ImportResult(1, 0, 1)
    /\ Len(submitted) = 2
    /\ Cardinality(SucceededCreates) = 1
    /\ Len(store.questions) = Len(initialStore.questions) + 1

=============================================================================
